---- MODULE Spec2Model ----
(***************************************************************************)
(* Model of the movie recommendation service of src/app/main.py: the       *)
(* import-time artifact load (lines 34-46), the recommend function (lines  *)
(* 61-69) and the four request handlers /recommend, /health, /movies and   *)
(* /search.                                                                *)
(*                                                                         *)
(* Strings are sequences of one-character strings, so that substring and   *)
(* pattern matching are computed character by character.  Row positions    *)
(* are 0-based as in the source; a TLA+ sequence is 1-based, so row i of   *)
(* the source is element i + 1 of the sequence that holds it.              *)
(***************************************************************************)
EXTENDS Integers, Sequences, FiniteSets, TLC

\* Largest record count / matrix dimension of an artifact of the service
\* specification (Spec).
MaxRecords == 2
\* Largest catalog of the ranking specification (SpecRank).
MaxCatalog == 8

\* recommend keeps sorted(...)[1:6]                      (main.py line 67)
SliceStart == 1
SliceStop == 6

VARIABLES
    pc,          \* position of the import-time load, then "serving"
    file,        \* the artifact on disk (environment, never written)
    log,         \* which message the load printed: "pending", "ok", "failed"
    vectorizer,  \* module global (lines 37, 44)
    new_df,      \* module global: the title column of the dataframe
    similarity,  \* module global (lines 39, 46)
    request,     \* the request the last handler served
    movie_index, \* recommend's local of line 65 (-1: not computed)
    movies_list, \* recommend's local of line 67: <<row, score>> pairs
    movies,      \* get_recommendation's local of line 88
    response     \* what the last handler returned

vars == <<pc, file, log, vectorizer, new_df, similarity, request,
          movie_index, movies_list, movies, response>>

----------------------------------------------------------------------------
(* Values *)

Min(a, b) == IF a < b THEN a ELSE b
Max(a, b) == IF a > b THEN a ELSE b

\* A module global is unbound before its assignment, None, or a value.
Unbound == [kind |-> "unbound", val |-> <<>>]
None == [kind |-> "none", val |-> <<>>]
Val(v) == [kind |-> "value", val |-> v]

\* pd.DataFrame() of line 45: a frame with no rows.
EmptyFrame == Val(<<>>)

\* DataFrame.empty (lines 81, 116, 121, 129, 152): no rows.
Empty(df) == Len(df.val) = 0

\* len(new_df) (lines 121, 139)
FrameLen(df) == Len(df.val)

\* similarity is None (lines 81, 116)
IsNone(x) == x.kind = "none"

\* Python's s[start:stop] for a list s and integers start, stop: a negative
\* bound counts from the end, and both are clamped to 0..len(s).
PyBound(n, i) == IF i < 0 THEN Max(n + i, 0) ELSE Min(i, n)
PySlice(s, start, stop) ==
    LET a == PyBound(Len(s), start)
        b == PyBound(Len(s), stop)
    IN  IF a < b THEN SubSeq(s, a + 1, b) ELSE <<>>

----------------------------------------------------------------------------
(* new_df['title'].str.contains(query, case=False, na=False)  (line 159) *)

\* Case folding of re.IGNORECASE on the letters of the model's alphabet.
Lower(c) == IF c = "A" THEN "a" ELSE IF c = "B" THEN "b" ELSE c

\* str.contains compiles the query as a regular expression (regex=True is
\* the default).  Over the model's alphabet a pattern is a string of
\* letters and spaces, which match themselves up to case, of ".", which
\* matches any character, and of "(", which opens a group that nothing
\* closes: re.compile raises re.error on it.
PatternCompiles(pat) == \A i \in 1..Len(pat) : pat[i] # "("

CharMatches(p, c) == p = "." \/ Lower(p) = Lower(c)

\* re.search(pat, s, re.IGNORECASE) is not None, for a pattern that compiles.
Contains(pat, s) ==
    \E k \in 0..(Len(s) - Len(pat)) :
        \A i \in 1..Len(pat) : CharMatches(pat[i], s[k + i])

\* new_df[mask]['title'].tolist(): the titles the mask keeps, in row order.
RECURSIVE Matching(_, _)
Matching(titles, pat) ==
    IF titles = <<>> THEN <<>>
    ELSE (IF Contains(pat, Head(titles)) THEN <<Head(titles)>> ELSE <<>>)
         \o Matching(Tail(titles), pat)

----------------------------------------------------------------------------
(* recommend(movie)  (lines 61-69) *)

\* movie in new_df['title'].values  (line 62)
InTitles(titles, movie) == \E i \in 1..Len(titles) : titles[i] = movie

\* new_df[new_df['title'] == movie].index: the row labels the mask keeps,
\* in row order (0-based).
RECURSIVE MaskIndex(_, _, _)
MaskIndex(titles, movie, i) ==
    IF i >= Len(titles) THEN <<>>
    ELSE (IF titles[i + 1] = movie THEN <<i>> ELSE <<>>)
         \o MaskIndex(titles, movie, i + 1)

\* A mutant of MovieIndex: the last label of the mask, .index[-1].
MovieIndexLast(titles, movie) ==
    LET idx == MaskIndex(titles, movie, 0) IN idx[Len(idx)]

\* .index[0]  (line 65)
MovieIndex(titles, movie) == Head(MaskIndex(titles, movie, 0))

\* list(enumerate(distance))  (line 67): <<row, score>> pairs, rows from 0.
Enumerate(distance) == [i \in 1..Len(distance) |-> <<i - 1, distance[i]>>]

\* sorted(pairs, reverse=True, key=lambda x: x[1])  (line 67).  Python's
\* sort is stable, also with reverse=True: pairs of equal score keep their
\* original order.  Each pair is inserted behind every pair whose score is
\* at least its own.
RECURSIVE InsertDesc(_, _)
InsertDesc(x, s) ==
    IF s = <<>> THEN <<x>>
    ELSE IF Head(s)[2] >= x[2] THEN <<Head(s)>> \o InsertDesc(x, Tail(s))
    ELSE <<x>> \o s

RECURSIVE SortedDesc(_)
SortedDesc(pairs) ==
    IF pairs = <<>> THEN <<>>
    ELSE InsertDesc(pairs[Len(pairs)], SortedDesc(SubSeq(pairs, 1, Len(pairs) - 1)))

\* A mutant of MoviesList: the slice [1:5], one entry short.
MoviesListShort(distance) ==
    PySlice(SortedDesc(Enumerate(distance)), SliceStart, SliceStop - 1)

\* movies_list of line 67.
MoviesList(distance) ==
    PySlice(SortedDesc(Enumerate(distance)), SliceStart, SliceStop)

\* What a call recommend(movie) does with the globals df and sim: it
\* returns a list, or an IndexError leaves it (raised): similarity[i] for a
\* row the matrix does not have (line 66), new_df.iloc[i] for a row the
\* frame does not have (line 68).
NoRecommend == [raised |-> FALSE, movie_index |-> -1, movies_list |-> <<>>,
                recommended |-> <<>>]

\* Lines 66-68 for the row the title resolved to.
RecommendRow(df, mi, ml) ==
    IF \E k \in 1..Len(ml) : ml[k][1] >= Len(df.val)
    THEN [raised |-> TRUE, movie_index |-> mi, movies_list |-> ml,
          recommended |-> <<>>]
    ELSE [raised |-> FALSE, movie_index |-> mi, movies_list |-> ml,
          recommended |-> [k \in 1..Len(ml) |-> df.val[ml[k][1] + 1]]]

RecommendAt(df, sim, mi) ==
    IF mi >= Len(sim.val)
    THEN [NoRecommend EXCEPT !.raised = TRUE, !.movie_index = mi]
    ELSE RecommendRow(df, mi, MoviesList(sim.val[mi + 1]))

recommend(df, sim, movie) ==
    IF ~InTitles(df.val, movie) THEN NoRecommend
    ELSE RecommendAt(df, sim, MovieIndex(df.val, movie))

----------------------------------------------------------------------------
(* The artifact file and the requests the model draws *)

Scores == {0, 1}

\* Titles of the service specification: two that differ only in case, one
\* with a space in it.
Names == {<<"a">>, <<"A">>, <<"a", " ", "b">>}

\* A title no record of the service specification has.
Absent == <<"b">>

SeqsUpTo(S, n) == UNION {[1..k -> S] : k \in 0..n}

\* The matrices of r rows and c columns whose row i is one score vector v
\* rotated right by i places: row i, column j holds v[(j - i) mod c].  As v
\* ranges over all vectors, every row ranges over every content.
Rotated(v, r) ==
    [i \in 1..r |-> [j \in 1..Len(v) |-> v[((j - i) % Len(v)) + 1]]]

Matrices(maxdim) ==
    {<<>>} \cup
    {[i \in 1..r |-> <<>>] : r \in 1..maxdim} \cup
    UNION {{Rotated(v, r) : v \in [1..c -> Scores]} :
           r \in 1..maxdim, c \in 1..maxdim}

\* A file: whether gzip.open finds it, whether joblib.load decodes it, and
\* for a decoded one the keys of its dict with the values of 'dataframe'
\* and 'similarity_matrix' (a matrix, or None).
File(exists, decodable, fields, dataframe, matrix) ==
    [exists |-> exists, decodable |-> decodable, fields |-> fields,
     dataframe |-> dataframe, similarity_matrix |-> matrix]

AllFields == {"vectorizer", "dataframe", "similarity_matrix"}

\* The files of the service specification.  A field the load never reaches
\* (it raised before) has one value.
Files ==
    {File(FALSE, FALSE, {}, <<>>, None), File(TRUE, FALSE, {}, <<>>, None)} \cup
    {File(TRUE, TRUE, {"dataframe", "similarity_matrix"}, <<>>, None),
     File(TRUE, TRUE, {"vectorizer", "similarity_matrix"}, <<>>, None)} \cup
    {File(TRUE, TRUE, {"vectorizer", "dataframe"}, t, None) :
        t \in SeqsUpTo(Names, MaxRecords)} \cup
    {File(TRUE, TRUE, AllFields, t, m) :
        t \in SeqsUpTo(Names, MaxRecords),
        m \in {None} \cup {Val(x) : x \in Matrices(MaxRecords)}}

\* limit: int = 50 (line 126), limit: int = 10 (line 149)
DefaultMoviesLimit == 50
DefaultSearchLimit == 10

Queries == {<<>>, <<" ">>, <<" ", " ">>, <<"a">>, <<"A">>, <<".">>, <<"(">>,
            <<"a", " ">>}
SearchLimits == {-1, 0, 1, DefaultSearchLimit}
MoviesLimits == {-1, 0, 1, DefaultMoviesLimit}

Request(op, movie, query, limit) ==
    [op |-> op, movie |-> movie, query |-> query, limit |-> limit]

NoRequest == Request("none", <<>>, <<>>, 0)

\* A handler's JSON body: status, which message it carries, the list of
\* titles and the count it carries.
Response(op, status, message, titles, count) ==
    [op |-> op, status |-> status, message |-> message, movies |-> titles,
     count |-> count]

NoResponse == Response("none", "none", "", <<>>, 0)

----------------------------------------------------------------------------
(* The import-time load  (lines 34-46) *)

Init ==
    /\ pc = "open"
    /\ file \in Files
    /\ log = "pending"
    /\ vectorizer = "unbound"
    /\ new_df = Unbound
    /\ similarity = Unbound
    /\ request = NoRequest
    /\ movie_index = -1
    /\ movies_list = <<>>
    /\ movies = <<>>
    /\ response = NoResponse

Handled == <<request, movie_index, movies_list, movies, response>>

\* gzip.open(model_path, 'rb')  (line 35)
Open ==
    /\ pc = "open"
    /\ pc' = IF file.exists THEN "decode" ELSE "except"
    /\ UNCHANGED <<file, log, vectorizer, new_df, similarity, Handled>>

\* data = joblib.load(f)  (line 36)
Decode ==
    /\ pc = "decode"
    /\ pc' = IF file.decodable THEN "vectorizer" ELSE "except"
    /\ UNCHANGED <<file, log, vectorizer, new_df, similarity, Handled>>

\* vectorizer = data['vectorizer']  (line 37)
ReadVectorizer ==
    /\ pc = "vectorizer"
    /\ IF "vectorizer" \in file.fields
       THEN pc' = "dataframe" /\ vectorizer' = "Vectorizer"
       ELSE pc' = "except" /\ UNCHANGED vectorizer
    /\ UNCHANGED <<file, log, new_df, similarity, Handled>>

\* new_df = pd.DataFrame(data['dataframe'])  (line 38)
ReadDataframe ==
    /\ pc = "dataframe"
    /\ IF "dataframe" \in file.fields
       THEN pc' = "similarity" /\ new_df' = Val(file.dataframe)
       ELSE pc' = "except" /\ UNCHANGED new_df
    /\ UNCHANGED <<file, log, vectorizer, similarity, Handled>>

\* similarity = data['similarity_matrix']; print("Model loaded
\* successfully!")  (lines 39-40)
ReadSimilarity ==
    /\ pc = "similarity"
    /\ IF "similarity_matrix" \in file.fields
       THEN /\ pc' = "serving"
            /\ similarity' = file.similarity_matrix
            /\ log' = "ok"
       ELSE pc' = "except" /\ UNCHANGED <<similarity, log>>
    /\ UNCHANGED <<file, vectorizer, new_df, Handled>>

\* A mutant of ExceptReset: the handler leaves the frame as the try block
\* left it.
ExceptKeepFrame ==
    /\ vectorizer' = "None"
    /\ new_df' = IF new_df.kind = "unbound" THEN EmptyFrame ELSE new_df
    /\ similarity' = None

\* The assignments of the except block  (lines 44-46)
ExceptReset ==
    /\ vectorizer' = "None"
    /\ new_df' = EmptyFrame
    /\ similarity' = None

\* except Exception as e  (lines 41-46)
Except ==
    /\ pc = "except"
    /\ pc' = "serving"
    /\ log' = "failed"
    /\ ExceptReset
    /\ UNCHANGED <<file, Handled>>

Load == Open \/ Decode \/ ReadVectorizer \/ ReadDataframe \/ ReadSimilarity \/ Except

----------------------------------------------------------------------------
(* The request handlers *)

Globals == <<pc, file, log, vectorizer, new_df, similarity>>

NoLocals == movie_index' = -1 /\ movies_list' = <<>> /\ movies' = <<>>

\* new_df.empty or similarity is None  (line 81)
NotLoaded(df, sim) == Empty(df) \/ IsNone(sim)

\* POST /recommend: get_recommendation  (lines 73-106)
Recommend(movie) ==
    /\ pc = "serving"
    /\ request' = Request("recommend", movie, <<>>, 0)
    /\ IF NotLoaded(new_df, similarity)
       THEN /\ response' = Response("recommend", "error", "not_loaded", <<>>, 0)
            /\ NoLocals
       ELSE \E r \in {recommend(new_df, similarity, movie)} :
            /\ movie_index' = r.movie_index
            /\ movies_list' = r.movies_list
            /\ movies' = r.recommended
            /\ response' =
                 IF r.raised
                 THEN Response("recommend", "error", "failed", <<>>, 0)
                 ELSE IF r.recommended = <<>>
                 THEN Response("recommend", "error", "not_found", <<>>, 0)
                 ELSE Response("recommend", "success", "", r.recommended, 0)
    /\ UNCHANGED Globals

\* GET /health: health_check  (lines 113-122)
Health ==
    /\ pc = "serving"
    /\ request' = Request("health", <<>>, <<>>, 0)
    /\ response' =
         Response("health", "healthy",
                  IF ~Empty(new_df) /\ ~IsNone(similarity)
                  THEN "loaded" ELSE "not loaded",
                  <<>>,
                  IF ~Empty(new_df) THEN FrameLen(new_df) ELSE 0)
    /\ NoLocals
    /\ UNCHANGED Globals

\* GET /movies: get_available_movies  (lines 125-145)
Movies(limit) ==
    /\ pc = "serving"
    /\ request' = Request("movies", <<>>, <<>>, limit)
    /\ response' =
         IF Empty(new_df)
         THEN Response("movies", "error", "not_loaded", <<>>, 0)
         ELSE Response("movies", "success", "",
                       PySlice(new_df.val, 0, limit), FrameLen(new_df))
    /\ NoLocals
    /\ UNCHANGED Globals

\* matching_movies of line 159
MatchingMovies(titles, query, limit) == PySlice(Matching(titles, query), 0, limit)

\* GET /search: search_movies  (lines 148-171)
Search(query, limit) ==
    /\ pc = "serving"
    /\ request' = Request("search", <<>>, query, limit)
    /\ response' =
         IF Empty(new_df)
         THEN Response("search", "error", "not_loaded", <<>>, 0)
         ELSE IF ~PatternCompiles(query)
         THEN Response("search", "error", "failed", <<>>, 0)
         ELSE LET m == MatchingMovies(new_df.val, query, limit) IN
              Response("search", "success", "", m, Len(m))
    /\ NoLocals
    /\ UNCHANGED Globals

Next ==
    \/ Load
    \/ \E movie \in Names \cup {Absent} : Recommend(movie)
    \/ Health
    \/ \E limit \in MoviesLimits : Movies(limit)
    \/ \E query \in Queries, limit \in SearchLimits : Search(query, limit)

Spec == Init /\ [][Next]_vars

----------------------------------------------------------------------------
(* The ranking specification: recommend over catalogs that satisfy the     *)
(* data model (N records, an N x N matrix), large enough for the slice     *)
(* [1:6] to cut the ranking.                                               *)

Letters == <<"c", "d", "e", "f", "g", "h", "i", "j", "k", "l", "m", "n">>

\* The title of row i (0-based) when no two rows share one.
RankTitle(i) == <<Letters[i + 1]>>

\* Catalogs of n records: all titles distinct, or the last row carrying the
\* title of an earlier row i.
RankTitles(n) ==
    {[k \in 1..n |-> RankTitle(k - 1)]} \cup
    {[k \in 1..n |-> IF k - 1 = j THEN RankTitle(i) ELSE RankTitle(k - 1)] :
        i \in 0..(n - 2), j \in {n - 1}}

RankAbsent == <<"z">>

\* The titles asked of a catalog: each title it has, and one it has not.
RankMovies(titles) == {titles[k] : k \in 1..Len(titles)} \cup {RankAbsent}

InitRank ==
    /\ pc = "serving"
    /\ log = "ok"
    /\ vectorizer = "Vectorizer"
    /\ \E n \in 1..MaxCatalog :
         \E t \in RankTitles(n), v \in [1..n -> Scores] :
            /\ new_df = Val(t)
            /\ similarity = Val(Rotated(v, n))
            /\ file = File(TRUE, TRUE, AllFields, t, Val(Rotated(v, n)))
    /\ request = NoRequest
    /\ movie_index = -1
    /\ movies_list = <<>>
    /\ movies = <<>>
    /\ response = NoResponse

NextRank == \E movie \in RankMovies(new_df.val) : Recommend(movie)

SpecRank == InitRank /\ [][NextRank]_vars

----------------------------------------------------------------------------
(* What the specification's words mean on the model's state *)

\* k = 5, the number of recommendations  (the slice [1:6] of line 67)
TopK == 5

\* N, the catalog size.
N == FrameLen(new_df)

\* The artifact's data-model invariants: as many matrix rows, and as many
\* columns in each, as there are records.
WellFormed(df, sim) ==
    /\ sim.kind = "value"
    /\ Len(sim.val) = Len(df.val)
    /\ \A i \in 1..Len(sim.val) : Len(sim.val[i]) = Len(df.val)

\* The load fails: no file, no decoding, or a key the dict lacks.
LoadFails(f) == ~f.exists \/ ~f.decodable \/ f.fields # AllFields

\* The last request was a recommend for a title some record has.
Resolved == request.op = "recommend" /\ InTitles(new_df.val, request.movie)

\* The lowest row (0-based) whose title is the given one.
LowestRow(titles, movie) ==
    CHOOSE i \in 0..(Len(titles) - 1) :
        /\ titles[i + 1] = movie
        /\ \A j \in 0..(i - 1) : titles[j + 1] # movie

\* Row a ranks before row b: a higher score, or the same score and a lower
\* row.
RanksBefore(distance, a, b) ==
    \/ distance[a + 1] > distance[b + 1]
    \/ distance[a + 1] = distance[b + 1] /\ a < b

\* The first k rows other than r in that order.
TopOthers(distance, r, k) ==
    LET others == {j \in 0..(Len(distance) - 1) : j # r}
        place(j) == 1 + Cardinality({i \in others : RanksBefore(distance, i, j)})
    IN  [p \in 1..Min(k, Cardinality(others)) |->
            CHOOSE j \in others : place(j) = p]

\* The rows of the pairs of a movies_list.
Rows(ml) == [k \in 1..Len(ml) |-> ml[k][1]]

\* The first n elements of s, none for n <= 0.
Take(s, n) == SubSeq(s, 1, Min(Max(n, 0), Len(s)))

\* The string q occurs in s, letter case ignored, every character of q
\* standing for itself.
LiteralContains(q, s) ==
    \E k \in 0..(Len(s) - Len(q)) :
        \A i \in 1..Len(q) : Lower(q[i]) = Lower(s[k + i])

RECURSIVE LiteralMatching(_, _)
LiteralMatching(titles, q) ==
    IF titles = <<>> THEN <<>>
    ELSE (IF LiteralContains(q, Head(titles)) THEN <<Head(titles)>> ELSE <<>>)
         \o LiteralMatching(Tail(titles), q)

\* A query that is empty or all spaces.
Blank(q) == \A i \in 1..Len(q) : q[i] = " "

----------------------------------------------------------------------------
(* Claims *)

\* C1 (stated as claimed; the code violates it): for a catalog satisfying
\* the data model and a title that resolves to row r, the rows recommend
\* ranks never include r itself.
C1_SelfNeverRecommended ==
    Resolved =>
        \A k \in 1..Len(movies_list) :
            movies_list[k][1] # LowestRow(new_df.val, request.movie)

\* C2 (stated as claimed; the code violates it): recommend returns the
\* first min(5, N-1) of the OTHER rows ordered by score descending, equal
\* scores by ascending row, as titles.
C2_TopOthersInOrder ==
    Resolved =>
        LET r == LowestRow(new_df.val, request.movie)
            want == TopOthers(similarity.val[r + 1], r, TopK)
        IN  /\ Rows(movies_list) = want
            /\ movies = [k \in 1..Len(want) |-> new_df.val[want[k] + 1]]

\* C3: whenever the title resolves, recommend returns exactly min(5, N-1)
\* titles, for every catalog size N >= 1.
C3_LengthIsMinKNminus1 ==
    Resolved => Len(movies) = Min(TopK, N - 1)

\* C3 witness: a catalog of 7 whose ranking of 6 others is cut to 5.
C3_Witness ==
    Resolved /\ N = 7 /\ Len(movies) = 5 /\ response.status = "success"

\* C10: a title that several records share resolves to the lowest of their
\* rows; the similarity row ranked and the titles returned are read there.
C10_FirstOccurrenceWins ==
    Resolved =>
        LET r == LowestRow(new_df.val, request.movie) IN
        /\ movie_index = r
        /\ \A j \in 0..(N - 1) :
              (j > r /\ new_df.val[j + 1] = request.movie) => movie_index # j
        /\ movies_list = MoviesList(similarity.val[r + 1])
        /\ movies = [k \in 1..Len(movies_list) |-> new_df.val[movies_list[k][1] + 1]]

\* C10 witness: rows 3 and 7 share a title, their similarity rows differ,
\* and recommend was asked for that title.
C10_Witness ==
    /\ Resolved
    /\ N = 8
    /\ new_df.val[4] = new_df.val[8]
    /\ request.movie = new_df.val[4]
    /\ similarity.val[4] # similarity.val[8]
    /\ movie_index = 3
    /\ response.status = "success"


\* The load succeeded on an artifact that satisfies the data model and has
\* at least one record.
ReadyOnCatalog ==
    pc = "serving" /\ log = "ok" /\ WellFormed(new_df, similarity) /\ N >= 1

\* C4 (stated as claimed; the code violates it): while Ready, /recommend
\* reports NotFound exactly when no record has the title, and every title
\* that resolves yields success, also with nothing to recommend (N = 1).
C4_NotFoundIffUnresolved ==
    (ReadyOnCatalog /\ request.op = "recommend") =>
        /\ response.message = "not_found"
              <=> ~InTitles(new_df.val, request.movie)
        /\ InTitles(new_df.val, request.movie) => response.status = "success"

\* C5: when the load fails at any step, the globals hold no partial data
\* and, in every later state, recommend, search and listItems answer "not
\* loaded" without a lookup, never "not found".
C5_FailedLoadStaysNotReady ==
    (pc = "serving" /\ LoadFails(file)) =>
        /\ log = "failed"
        /\ vectorizer = "None"
        /\ new_df = EmptyFrame
        /\ similarity = None
        /\ request.op \in {"recommend", "search", "movies"} =>
              /\ response.status = "error"
              /\ response.message = "not_loaded"
              /\ response.movies = <<>>
              /\ movie_index = -1

\* C5 witness: the dict lacks 'similarity_matrix', so the load failed after
\* it had bound the vectorizer and a frame of two records; a search was
\* then answered "not loaded".
C5_Witness ==
    /\ pc = "serving"
    /\ file.fields = {"vectorizer", "dataframe"}
    /\ Len(file.dataframe) = 2
    /\ request.op = "search"
    /\ request.query = <<"a">>
    /\ response.message = "not_loaded"

\* C6 (stated as claimed; the code violates it): health reports ready
\* exactly when the load succeeded, itemCount N when ready and 0 when not,
\* and its readiness is the readiness test of the three query handlers.
C6_HealthIsLoadOutcome ==
    request.op = "health" =>
        /\ response.message = "loaded" <=> log = "ok"
        /\ response.count = IF log = "ok" THEN N ELSE 0
        /\ response.message = "loaded" <=> ~NotLoaded(new_df, similarity)
        /\ response.message = "loaded" <=> ~Empty(new_df)

\* C7 (stated as claimed; the code violates it): a load succeeds on an
\* artifact with a matrix only when the record count is the matrix's row
\* and column count, and recommend never indexes out of bounds.
C7_ReadyImpliesDimensionsMatch ==
    /\ (pc = "serving" /\ log = "ok" /\ similarity.kind = "value")
          => WellFormed(new_df, similarity)
    /\ request.op = "recommend" => response.message # "failed"

\* C8 (stated as claimed; the code violates it): on a loaded catalog a
\* search for an empty or all-space query returns no title.
C8_BlankQueryReturnsNothing ==
    (request.op = "search" /\ ~Empty(new_df) /\ Blank(request.query)) =>
        response.movies = <<>>

\* C9 (stated as claimed; the code violates it): for a non-empty query and
\* any integer limit, search returns the titles that hold the query as a
\* literal substring, case ignored, in record order, cut to the first
\* limit of them (none for a limit below 1).
C9_LiteralSubstringUpToLimit ==
    (request.op = "search" /\ ~Empty(new_df) /\ request.query # <<>>) =>
        /\ response.status = "success"
        /\ response.movies =
              Take(LiteralMatching(new_df.val, request.query), request.limit)
        /\ Len(response.movies) <= Max(request.limit, 0)

====
